---- MODULE Spec2Model ----
(***************************************************************************)
(* E.A.S.I.E. (src/app.py): the recurring occurrence generator, the        *)
(* month projection with rollover, and the stores they read.               *)
(*                                                                         *)
(* Dates.  A datetime.date value is modelled by its proleptic Gregorian    *)
(* ordinal (date.toordinal()); an ISO date string ("2025-01-03") by the    *)
(* tuple <<2025, 1, 3>>, which orders like the string does.  Money is      *)
(* modelled in whole currency units, so round(x, 2) changes nothing.       *)
(* A NULL column is the empty tuple; a present value v is <<v>> for dow    *)
(* and the date tuple itself for end_date.                                 *)
(***************************************************************************)
EXTENDS Integers, Sequences, FiniteSets, TLC

VARIABLES
    schedules,          \* table schedules: rows in rowid order
    transactions,       \* table transactions: rows in rowid order
    starting_balance,   \* params['starting_balance']
    exp_done,           \* an expansion has been computed
    exp_until,          \* its cutoff date (ordinal)
    exp_occs,           \* its result: the list of occurrences
    page,               \* <<>> or <<p>>: the month series last computed
    budgets,            \* table budgets: category -> weekly_amount
    today,              \* date.today(), an ordinal
    ask,                \* the wishlist row whose health is computed
    health,             \* <<>> or <<h>>: the health last computed
    kept,               \* history: <<>> or <<f>>, the 90-day result of the
                        \* health computed before the budgets table changed
    occurrences,        \* table occurrences: rows in rowid order
    answer,             \* <<>> or <<a>>: the balance last answered by the
                        \* dashboard or by /api/today_balance
    before              \* history: <<>> or <<b>>, the starting balance and
                        \* the results shown before POST /settings changed it

vars == <<schedules, transactions, starting_balance,
          exp_done, exp_until, exp_occs, page,
          budgets, today, ask, health, kept, occurrences, answer, before>>

Null == <<>>

----------------------------------------------------------------------------
(* datetime.date *)

IsLeap(y) == (y % 4 = 0) /\ ((y % 100 # 0) \/ (y % 400 = 0))

DaysInMonth(y, m) ==
    IF m = 2 THEN (IF IsLeap(y) THEN 29 ELSE 28)
    ELSE IF m \in {4, 6, 9, 11} THEN 30 ELSE 31

DaysBeforeYear(y) ==
    (y - 1) * 365 + ((y - 1) \div 4) - ((y - 1) \div 100) + ((y - 1) \div 400)

DaysBeforeMonthTable == <<0, 31, 59, 90, 120, 151, 181, 212, 243, 273, 304, 334>>

DaysBeforeMonth(y, m) ==
    DaysBeforeMonthTable[m] + (IF m > 2 /\ IsLeap(y) THEN 1 ELSE 0)

\* date(y, m, d) / date.fromisoformat(s): the ordinal of an ISO date
fromisoformat(s) == DaysBeforeYear(s[1]) + DaysBeforeMonth(s[1], s[2]) + s[3]

\* the year, month and day of the date with ordinal n
OrdYear(n) ==
    LET n0   == n - 1
        n400 == n0 \div 146097
        r400 == n0 % 146097
        n100 == r400 \div 36524
        r100 == r400 % 36524
        n4   == r100 \div 1461
        r4   == r100 % 1461
        n1   == r4 \div 365
        y    == n400 * 400 + n100 * 100 + n4 * 4 + n1 + 1
    IN  IF n1 = 4 \/ n100 = 4 THEN y - 1 ELSE y

OrdMonth(n) ==
    LET y   == OrdYear(n)
        doy == n - DaysBeforeYear(y)
        est == (doy - 1 + 50) \div 32
    IN  IF DaysBeforeMonth(y, est) >= doy THEN est - 1 ELSE est

OrdDay(n) ==
    LET y == OrdYear(n) IN n - DaysBeforeYear(y) - DaysBeforeMonth(y, OrdMonth(n))

\* the conversions of the dates of 2024-12 .. 2025-12, computed once
IsoTable ==
    [n \in fromisoformat(<<2024, 12, 1>>)..fromisoformat(<<2025, 12, 31>>) |->
        <<OrdYear(n), OrdMonth(n), OrdDay(n)>>]

\* d.isoformat()
isoformat(n) ==
    IF n \in DOMAIN IsoTable THEN IsoTable[n]
    ELSE <<OrdYear(n), OrdMonth(n), OrdDay(n)>>

\* d.year, d.month, d.day
YearOf(n) == isoformat(n)[1]
MonthOf(n) == isoformat(n)[2]
DayOf(n) == isoformat(n)[3]

\* d.weekday(): 0 = Monday .. 6 = Sunday
weekday(n) == (n + 6) % 7

\* s1 <= s2 on ISO date strings
IsoLeq(s1, s2) ==
    \/ s1[1] < s2[1]
    \/ s1[1] = s2[1] /\ s1[2] < s2[2]
    \/ s1[1] = s2[1] /\ s1[2] = s2[2] /\ s1[3] <= s2[3]

month_start(year, month) == fromisoformat(<<year, month, 1>>)

month_end(year, month) == fromisoformat(<<year, month, DaysInMonth(year, month)>>)

----------------------------------------------------------------------------
(* Occurrences generator *)

\* start = date.fromisoformat(sched["start_date"])
sched_start(sched) == fromisoformat(sched.start_date)

\* end = date.fromisoformat(sched["end_date"]) if sched["end_date"] else until
sched_end(sched, until) ==
    IF sched.end_date # Null THEN fromisoformat(sched.end_date) ELSE until

align_offset_flipped(dow, start) == (weekday(start) - dow) % 7

\* offset = (dow - start.weekday()) % 7
align_offset(dow, start) == (dow - weekday(start)) % 7

\* Align first occurrence to requested day-of-week (whatever the frequency)
aligned_start(sched) ==
    LET start == sched_start(sched)
    IN  IF sched.dow # Null
        THEN start + align_offset(sched.dow[1], start)
        ELSE start

next_month_same_day(dow, current) ==
    LET m0 == MonthOf(current) + 1
        y  == YearOf(current) + ((m0 - 1) \div 12)
        m  == ((m0 - 1) % 12) + 1
        d  == IF DayOf(current) > DaysInMonth(y, m)
              THEN DaysInMonth(y, m) ELSE DayOf(current)
    IN  fromisoformat(<<y, m, d>>)

next_month_skipping(dow, current) ==
    LET m0        == MonthOf(current) + 2
        y         == YearOf(current) + ((m0 - 1) \div 12)
        m         == ((m0 - 1) % 12) + 1
        first_day == fromisoformat(<<y, m, 1>>)
        offset    == (dow - weekday(first_day)) % 7
    IN  first_day + offset

\* step 1 month forward, first occurrence of this weekday in the new month
next_month_first(dow, current) ==
    LET m0        == MonthOf(current) + 1
        y         == YearOf(current) + ((m0 - 1) \div 12)
        m         == ((m0 - 1) % 12) + 1
        first_day == fromisoformat(<<y, m, 1>>)
        offset    == (dow - weekday(first_day)) % 7
    IN  first_day + offset

fixed_step_swapped(frequency) == IF frequency = "weekly" THEN 14 ELSE 7

\* timedelta(days=7) for weekly, timedelta(days=14) for biweekly
fixed_step(frequency) == IF frequency = "weekly" THEN 7 ELSE 14

\* the frequencies after which the loop goes on; any other string breaks
Recurring == {"weekly", "biweekly", "monthly"}

\* the if/elif chain that moves current to the next occurrence
advance(sched, current) ==
    IF sched.frequency \in {"weekly", "biweekly"}
    THEN current + fixed_step(sched.frequency)
    ELSE next_month_first(sched.dow[1], current)

occurrence_at_start(sched, current) ==
    [schedule_id |-> sched.id,
     date        |-> sched.start_date,
     kind        |-> sched.kind,
     category    |-> sched.category,
     amount      |-> sched.amount]

\* the dict appended on each iteration
occurrence(sched, current) ==
    [schedule_id |-> sched.id,
     date        |-> isoformat(current),
     kind        |-> sched.kind,
     category    |-> sched.category,
     amount      |-> sched.amount]

loop_continues_exclusive(current, end) == current < end

\* while current <= end
loop_continues(current, end) == current <= end

RECURSIVE occurrence_loop(_, _, _)
occurrence_loop(sched, current, end) ==
    IF loop_continues(current, end)
    THEN <<occurrence(sched, current)>> \o
         (IF sched.frequency \in Recurring
          THEN occurrence_loop(sched, advance(sched, current), end)
          ELSE <<>>)
    ELSE <<>>

generate_occurrences_for_schedule(sched, until) ==
    occurrence_loop(sched, aligned_start(sched), sched_end(sched, until))

RECURSIVE all_occurrences_from(_, _, _)
all_occurrences_from(rows, i, until) ==
    IF i > Len(rows) THEN <<>>
    ELSE (IF rows[i].active = 1
          THEN generate_occurrences_for_schedule(rows[i], until)
          ELSE <<>>) \o all_occurrences_from(rows, i + 1, until)

\* SELECT * FROM schedules WHERE active=1, each row expanded in turn
all_occurrences(until) == all_occurrences_from(schedules, 1, until)

----------------------------------------------------------------------------
(* Posted transactions and the month projection *)

\* SUM(CASE WHEN kind = k THEN amount ELSE 0 END) over the rows from i on
\* whose date(ts) lies in [lo, hi] (ISO strings)
RECURSIVE sum_kind(_, _, _, _, _)
sum_kind(rows, i, k, lo, hi) ==
    IF i > Len(rows) THEN 0
    ELSE (IF rows[i].kind = k /\ IsoLeq(lo, rows[i].ts) /\ IsoLeq(rows[i].ts, hi)
          THEN rows[i].amount ELSE 0) + sum_kind(rows, i + 1, k, lo, hi)

\* the ISO string below every stored date: WHERE date(ts) <= ? has no lower end
MinIso == <<0, 0, 0>>

\* a starting balance that takes effect on 2025-01-01 only
running_balance_through_dated(day) ==
    LET net == sum_kind(transactions, 1, "income", MinIso, isoformat(day))
               - sum_kind(transactions, 1, "expense", MinIso, isoformat(day))
    IN  IF day >= fromisoformat(<<2025, 1, 1>>)
        THEN starting_balance + net ELSE net

\* Starting balance + (income - expense) up to and including `day`
running_balance_through(day) ==
    LET net == sum_kind(transactions, 1, "income", MinIso, isoformat(day))
               - sum_kind(transactions, 1, "expense", MinIso, isoformat(day))
    IN  starting_balance + net

\* a projection that goes on from the last balance of the series shown before
rollover_from_last_page(start) ==
    IF page # Null
    THEN page[1].days[Len(page[1].days)].running
    ELSE running_balance_through(start - 1)

\* Rollover: start with balance up to day before the 1st
rollover(start) == running_balance_through(start - 1)

\* if start.isoformat() <= o["date"] <= end.isoformat()
in_range(o, lo, hi) == IsoLeq(lo, o.date) /\ IsoLeq(o.date, hi)

\* what the occurrences that passed the range test add to posted[ds]: kind
\* "income" adds to inc (income = TRUE), any other kind to exp
RECURSIVE occ_sum(_, _, _, _)
occ_sum(occs, i, income, ds) ==
    IF i > Len(occs) THEN 0
    ELSE (IF occs[i].date = ds /\ ((occs[i].kind = "income") = income)
          THEN occs[i].amount ELSE 0) + occ_sum(occs, i + 1, income, ds)

\* posted[ds] after the occurrences were added: <<inc, exp>>
posted_for_day(occs, ds) ==
    <<sum_kind(transactions, 1, "income", ds, ds) + occ_sum(occs, 1, TRUE, ds),
      sum_kind(transactions, 1, "expense", ds, ds) + occ_sum(occs, 1, FALSE, ds)>>

\* a day loop that never subtracts the day's expenses
running_after_income_only(running, inc, exp) == running + inc

\* one iteration of the day loop: the running balance after the day
running_after(running, inc, exp) ==
    IF inc # 0 \/ exp # 0 THEN running + (inc - exp) ELSE running

\* for d in daterange(start, end): the lists labels, incs, exps, runs
RECURSIVE series_from(_, _, _, _)
series_from(occs, d, end, running) ==
    IF d > end THEN <<>>
    ELSE LET ie  == posted_for_day(occs, isoformat(d))
             run == running_after(running, ie[1], ie[2])
         IN  <<[label |-> isoformat(d), inc |-> ie[1], exp |-> ie[2],
                running |-> run]>>
             \o series_from(occs, d + 1, end, run)

\* the body of calendar_series_for_month for the range [start, end]
calendar_series(start, end) ==
    LET lo   == isoformat(start)
        hi   == isoformat(end)
        occs == SelectSeq(all_occurrences(end), LAMBDA o : in_range(o, lo, hi))
    IN  series_from(occs, start, end, rollover(start))

calendar_series_for_month(y, m) ==
    calendar_series(month_start(y, m), month_end(y, m))

----------------------------------------------------------------------------
(* The rules the store can hold.  schedule_new and schedule_update write   *)
(* kind, category, amount, frequency, start_date and dow (an int) and      *)
(* never touch end_date; wishlist_import_schedule writes a one-time        *)
(* expense with dow NULL and end_date = start_date.  active is always 1.   *)

NumStartDays == 35
NumHorizonMonths == 4
FirstStart == <<2024, 12, 25>>

StartDates ==
    {isoformat(fromisoformat(FirstStart) + k) : k \in 0..(NumStartDays - 1)}

EndDates == {<<2024, 12, 20>>, <<2025, 1, 10>>, <<2025, 2, 14>>, <<2025, 6, 30>>}

Horizons ==
    {month_end(2025, m) : m \in 1..NumHorizonMonths}
        \cup {fromisoformat(FirstStart) - 1, month_end(2024, 12)}

Frequencies == {"weekly", "biweekly", "monthly", "one-time"}

\* a row as schedule_new / schedule_update leave it
FormRule(id, kind, amount, frequency, dow, start_date, end_date) ==
    [id |-> id, kind |-> kind, category |-> "misc", amount |-> amount,
     frequency |-> frequency, dow |-> <<dow>>, start_date |-> start_date,
     end_date |-> end_date, active |-> 1]

\* a row as wishlist_import_schedule inserts it
ImportedRule(id, price, target_date) ==
    [id |-> id, kind |-> "expense", category |-> "misc", amount |-> price,
     frequency |-> "one-time", dow |-> Null, start_date |-> target_date,
     end_date |-> target_date, active |-> 1]

ExpandRules ==
    {FormRule(1, "income", 50, f, w, s, e) :
        f \in Frequencies, w \in 0..6, s \in StartDates,
        e \in {Null} \cup EndDates}
    \cup {ImportedRule(1, 50, s) : s \in StartDates}

----------------------------------------------------------------------------
(* Expansion of one stored rule to a cutoff date *)

InitExpand ==
    /\ schedules \in {<<r>> : r \in ExpandRules}
    /\ transactions = <<>>
    /\ starting_balance = 0
    /\ exp_done = FALSE
    /\ exp_until = 0
    /\ exp_occs = <<>>
    /\ page = Null
    /\ budgets = <<>>
    /\ today = 0
    /\ ask = Null
    /\ health = Null
    /\ kept = Null
    /\ occurrences = <<>>
    /\ answer = Null
    /\ before = Null

Expand ==
    /\ \E until \in Horizons :
         /\ exp_until' = until
         /\ exp_occs' = generate_occurrences_for_schedule(schedules[1], until)
    /\ exp_done' = TRUE
    /\ UNCHANGED <<schedules, transactions, starting_balance, page,
                   budgets, today, ask, health, kept,
                   occurrences, answer, before>>

NextExpand == Expand

SpecExpand == InitExpand /\ [][NextExpand]_vars

\* the rule expanded, and the dates of its occurrences as ordinals
Rule == schedules[1]
OccDate(i) == fromisoformat(exp_occs[i].date)
HasAnchor == Rule.dow # Null
Anchor == Rule.dow[1]

Start == sched_start(Rule)
Gap(i) == OccDate(i + 1) - OccDate(i)
Min(a, b) == IF a <= b THEN a ELSE b

\* the effective end the specification describes: min(end date, horizon)
EffectiveEnd ==
    IF Rule.end_date # Null
    THEN Min(fromisoformat(Rule.end_date), exp_until)
    ELSE exp_until

\* the effective start the specification describes: aligned to the anchor
\* weekday for weekly, biweekly and monthly rules only
EffectiveStart ==
    IF Rule.frequency \in Recurring /\ HasAnchor
    THEN Start + ((Anchor - weekday(Start)) % 7)
    ELSE Start

----------------------------------------------------------------------------
(* Properties of one expansion (SpecExpand) *)

\* C4: every occurrence of a weekly (biweekly) rule with an anchor falls on
\* the anchor weekday, and consecutive occurrences are exactly 7 (14) days
\* apart.
C4_WeeklyOnAnchorFixedStep ==
    (exp_done /\ HasAnchor /\ Rule.frequency \in {"weekly", "biweekly"}) =>
        /\ \A i \in 1..Len(exp_occs) : weekday(OccDate(i)) = Anchor
        /\ \A i \in 1..(Len(exp_occs) - 1) :
              Gap(i) = (IF Rule.frequency = "weekly" THEN 7 ELSE 14)

\* C4 witness: a weekly rule whose start date is not on its anchor weekday
\* has been expanded to at least four occurrences.
C4_Witness ==
    /\ exp_done /\ HasAnchor /\ Rule.frequency = "weekly"
    /\ weekday(Start) # Anchor
    /\ Len(exp_occs) >= 4

\* C5 as stated: every pair of consecutive occurrences of a monthly rule is
\* 28 to 35 days apart and every occurrence falls on the anchor weekday.
C5_MonthlyAllGaps28To35 ==
    (exp_done /\ HasAnchor /\ Rule.frequency = "monthly") =>
        /\ \A i \in 1..Len(exp_occs) : weekday(OccDate(i)) = Anchor
        /\ \A i \in 1..(Len(exp_occs) - 1) : Gap(i) \in 28..35

\* C5 amended: every occurrence of a monthly rule falls on the anchor
\* weekday; the first and second occurrence are 7 to 35 days apart, and
\* every later pair of consecutive occurrences is 28 to 35 days apart.
C5_MonthlyGapsAfterFirst ==
    (exp_done /\ HasAnchor /\ Rule.frequency = "monthly") =>
        /\ \A i \in 1..Len(exp_occs) : weekday(OccDate(i)) = Anchor
        /\ Len(exp_occs) >= 2 => Gap(1) \in 7..35
        /\ \A i \in 2..(Len(exp_occs) - 1) : Gap(i) \in 28..35

\* C5 witness: a monthly rule expanded to at least four occurrences, the
\* first gap shorter than four weeks and a later gap of five weeks.
C5_Witness ==
    /\ exp_done /\ HasAnchor /\ Rule.frequency = "monthly"
    /\ Len(exp_occs) >= 4
    /\ Gap(1) < 28
    /\ \E i \in 2..(Len(exp_occs) - 1) : Gap(i) = 35

\* C6 as stated: no occurrence is dated later than min(end date, horizon),
\* or than the horizon when the rule has no end date.
C6_NoOccurrenceAfterEffectiveEnd ==
    exp_done => \A i \in 1..Len(exp_occs) : OccDate(i) <= EffectiveEnd

\* C7 as stated: a one-time rule yields exactly one occurrence, on its start
\* date, when start <= horizon and start <= end date (if set), and none
\* otherwise.
C7_OneTimeExactlyOne ==
    (exp_done /\ Rule.frequency = "one-time") =>
        IF Start <= exp_until
           /\ (Rule.end_date # Null => Start <= fromisoformat(Rule.end_date))
        THEN Len(exp_occs) = 1 /\ OccDate(1) = Start
        ELSE Len(exp_occs) = 0

\* C8 as stated: the expansion is empty iff the effective start is later
\* than the effective end.
C8_EmptyIffStartAfterEnd ==
    exp_done => ((exp_occs = <<>>) <=> (EffectiveStart > EffectiveEnd))

\* C9: for a weekly, biweekly or monthly rule with anchor a and start s the
\* first occurrence, when there is one, is s + ((a - weekday(s)) mod 7): the
\* earliest date >= s on weekday a, s itself when s is on a, at most 6 days
\* after s.
C9_FirstOccurrenceIsNextAnchorDay ==
    (exp_done /\ HasAnchor /\ Rule.frequency \in Recurring
        /\ Len(exp_occs) >= 1) =>
        /\ OccDate(1) = Start + ((Anchor - weekday(Start)) % 7)
        /\ OccDate(1) >= Start
        /\ OccDate(1) - Start <= 6
        /\ weekday(OccDate(1)) = Anchor
        /\ \A d \in Start..(OccDate(1) - 1) : weekday(d) # Anchor
        /\ (weekday(Start) = Anchor => OccDate(1) = Start)

\* C9 witness: a recurring rule that starts the day after its anchor weekday
\* has a first occurrence, six days after the start date.
C9_Witness ==
    /\ exp_done /\ HasAnchor /\ Rule.frequency \in Recurring
    /\ weekday(Start) = (Anchor + 1) % 7
    /\ Len(exp_occs) >= 1
    /\ OccDate(1) = Start + 6

\* C10 as stated: a one-time rule whose anchor weekday differs from the
\* weekday of its start date has its single occurrence on the start date.
C10_OneTimeIgnoresAnchor ==
    (exp_done /\ Rule.frequency = "one-time" /\ HasAnchor
        /\ weekday(Start) # Anchor /\ Len(exp_occs) >= 1) =>
        (Len(exp_occs) = 1 /\ OccDate(1) = Start)

\* C11: every occurrence of a monthly rule after the first is the first
\* date on the anchor weekday in the calendar month right after the month of
\* the previous occurrence: day of month 1..7, no month skipped or repeated,
\* December followed by January of the next year.
C11_MonthlyFirstWeekdayOfNextMonth ==
    (exp_done /\ HasAnchor /\ Rule.frequency = "monthly") =>
        \A i \in 1..(Len(exp_occs) - 1) :
            LET prev == exp_occs[i].date
                cur  == exp_occs[i + 1].date
            IN  /\ weekday(fromisoformat(cur)) = Anchor
                /\ cur[3] \in 1..7
                /\ IF prev[2] = 12
                   THEN cur[1] = prev[1] + 1 /\ cur[2] = 1
                   ELSE cur[1] = prev[1] /\ cur[2] = prev[2] + 1

\* C11 witness: a monthly rule whose first occurrence is after the 7th of
\* December 2024 has been expanded across the turn of the year to at least
\* three occurrences.
C11_Witness ==
    /\ exp_done /\ HasAnchor /\ Rule.frequency = "monthly"
    /\ Len(exp_occs) >= 3
    /\ exp_occs[1].date[1] = 2024 /\ exp_occs[1].date[2] = 12
    /\ exp_occs[1].date[3] > 7
    /\ exp_occs[2].date[1] = 2025 /\ exp_occs[2].date[2] = 1

\* C12: within one expansion the occurrence dates are strictly increasing in
\* emission order, so no two occurrences share (rule id, date), whatever the
\* frequency, start date, end date and horizon.
C12_DatesStrictlyIncreasing ==
    exp_done =>
        /\ \A i \in 1..(Len(exp_occs) - 1) : OccDate(i) < OccDate(i + 1)
        /\ \A i, j \in 1..Len(exp_occs) :
              (exp_occs[i].schedule_id = exp_occs[j].schedule_id
                 /\ exp_occs[i].date = exp_occs[j].date) => i = j

\* C12 witness: a biweekly rule expanded to at least four occurrences.
C12_Witness ==
    exp_done /\ Len(exp_occs) >= 4 /\ Rule.frequency = "biweekly"

\* the number of days from the first candidate date to the horizon, both
\* included; none when the horizon is earlier
DaysToHorizon ==
    IF exp_until >= aligned_start(Rule)
    THEN exp_until - aligned_start(Rule) + 1 ELSE 0

\* C13 as stated: every iteration moves the current date forward, and the
\* number of occurrences emitted is at most the number of days between the
\* effective start and the horizon.
C13_EmittedBoundedByHorizon ==
    exp_done =>
        /\ \A i \in 1..(Len(exp_occs) - 1) : Gap(i) > 0
        /\ Len(exp_occs) <= DaysToHorizon

----------------------------------------------------------------------------
(* Month projections of a store (SpecProject) *)

MaxSchedules == 2
MaxTx == 1
NumViewMonths == 2

\* rules as the three writers of the schedules table leave them; the last
\* one is a wishlist import whose frequency, start and dow were then edited
ProjRules(id) ==
    {FormRule(id, "income", 50, "weekly", 4, <<2024, 12, 18>>, Null),
     FormRule(id, "expense", 30, "monthly", 0, <<2025, 1, 1>>, Null),
     FormRule(id, "income", 50, "biweekly", 2, <<2025, 1, 1>>, Null),
     ImportedRule(id, 30, <<2025, 2, 10>>),
     FormRule(id, "expense", 30, "weekly", 4, <<2025, 1, 1>>, <<2025, 2, 14>>)}

\* rows as add_tx inserts them: kind income or expense, ts at noon of a date
TxRows(id) ==
    {[id |-> id, ts |-> <<2024, 12, 20>>, amount |-> 70, category |-> "misc", kind |-> "income"],
     [id |-> id, ts |-> <<2025, 1, 10>>, amount |-> 20, category |-> "misc", kind |-> "expense"],
     [id |-> id, ts |-> <<2025, 2, 1>>, amount |-> 70, category |-> "misc", kind |-> "income"]}

\* tables of n rows with rowids 1..n
Tables(Rows(_), max) ==
    UNION {{t \in [1..n -> UNION {Rows(i) : i \in 1..n}] :
                \A i \in 1..n : t[i].id = i} : n \in 0..max}

StartingBalances == {100}

ViewMonths == {<<2025, m>> : m \in 1..NumViewMonths}

InitProject ==
    /\ schedules \in Tables(ProjRules, MaxSchedules)
    /\ transactions \in Tables(TxRows, MaxTx)
    /\ starting_balance \in StartingBalances
    /\ exp_done = FALSE
    /\ exp_until = 0
    /\ exp_occs = <<>>
    /\ page = Null
    /\ budgets = <<>>
    /\ today = 0
    /\ ask = Null
    /\ health = Null
    /\ kept = Null
    /\ occurrences = <<>>
    /\ answer = Null
    /\ before = Null

\* /daily and /calendar for one month: the series with its range
CalendarSeriesForMonth ==
    /\ \E ym \in ViewMonths :
         page' = <<[start |-> month_start(ym[1], ym[2]),
                    end   |-> month_end(ym[1], ym[2]),
                    days  |-> calendar_series_for_month(ym[1], ym[2])]>>
    /\ UNCHANGED <<schedules, transactions, starting_balance,
                   exp_done, exp_until, exp_occs,
                   budgets, today, ask, health, kept,
                   occurrences, answer, before>>

NextProject == CalendarSeriesForMonth

SpecProject == InitProject /\ [][NextProject]_vars

Shown == page # Null
Page == page[1]
\* the running balance the page shows for day d of its range
RunAt(d) == Page.days[d - Page.start + 1].running
FinalRun == RunAt(Page.end)

\* signed amount of the occurrences from i on that are dated <= ds
RECURSIVE occ_net_through(_, _, _)
occ_net_through(occs, i, ds) ==
    IF i > Len(occs) THEN 0
    ELSE (IF IsoLeq(occs[i].date, ds)
          THEN (IF occs[i].kind = "income" THEN occs[i].amount
                ELSE 0 - occs[i].amount)
          ELSE 0) + occ_net_through(occs, i + 1, ds)

\* C1: the running balance a month projection reports for day d1 equals the
\* final running balance of the projection of the same range cut at d1.
C1_SplitIdempotence ==
    Shown => \A d1 \in Page.start..Page.end :
        LET cut == calendar_series(Page.start, d1)
        IN  RunAt(d1) = cut[Len(cut)].running

\* C1 witness: a projected month with posted and scheduled activity whose
\* running balance moves at least twice within the month.
C1_Witness ==
    /\ Shown /\ Len(schedules) >= 1 /\ Len(transactions) >= 1
    /\ \E d1, d2 \in Page.start..Page.end :
          /\ d1 < d2
          /\ RunAt(d1) # RunAt(Page.start)
          /\ RunAt(d2) # RunAt(d1)
          /\ Page.days[d1 - Page.start + 1].exp # 0
          /\ Page.days[d2 - Page.start + 1].inc # 0

\* C2 as stated: the balance the projection of the following month starts
\* from equals the final running balance of the projected month.
C2_RolloverContinuity ==
    Shown => rollover(Page.end + 1) = FinalRun

\* C3 as stated: the running balance reported for day d is the starting
\* balance plus the net of all posted transactions dated <= d plus the net
\* of all occurrences of active rules dated <= d, also those dated before
\* the first day of the range.
C3_RunningIsTotalThroughDay ==
    Shown => \A d \in Page.start..Page.end :
        RunAt(d) = running_balance_through(d)
                     + occ_net_through(all_occurrences(d), 1, isoformat(d))

----------------------------------------------------------------------------
(* Wishlist health: this week's budget and the 90-day forecast *)

\* Monday and Sunday of the week of d
week_bounds(d) ==
    LET start == d - weekday(d)
    IN  <<start, start + 6>>

\* SUM(amount) over the rows from i on with kind 'expense', the given
\* category and date(ts) BETWEEN lo AND hi (ISO strings)
RECURSIVE sum_category_expense(_, _, _, _, _)
sum_category_expense(rows, i, category, lo, hi) ==
    IF i > Len(rows) THEN 0
    ELSE (IF rows[i].kind = "expense" /\ rows[i].category = category
             /\ IsoLeq(lo, rows[i].ts) /\ IsoLeq(rows[i].ts, hi)
          THEN rows[i].amount ELSE 0)
         + sum_category_expense(rows, i + 1, category, lo, hi)

spend_this_week(category, start, end) ==
    sum_category_expense(transactions, 1, category,
                         isoformat(start), isoformat(end))

\* the lookup with a default of 100.0 for a category without a row
budget_for_default_100(category) ==
    IF category \in DOMAIN budgets THEN budgets[category] ELSE 100

\* the weekly amount of the category's row, 0.0 when there is no row
budget_for(category) ==
    IF category \in DOMAIN budgets THEN budgets[category] ELSE 0

\* starting balance + posted net up to today (inclusive)
current_running_balance_today ==
    LET net == sum_kind(transactions, 1, "income", MinIso, isoformat(today))
               - sum_kind(transactions, 1, "expense", MinIso, isoformat(today))
    IN  starting_balance + net

\* timedelta(days=90): the length of the forecast
ForecastDays == 90

\* the remainder from which the weekly status is green
GreenMargin == 20

\* Body at the value of v, with v evaluated once
WithValue(v, Body(_)) == CHOOSE r \in {Body(x) : x \in {v}} : TRUE

\* a dict with numeric values: lookup with default 0.0, and assignment
dict_get(dict, k) == IF k \in DOMAIN dict THEN dict[k] ELSE 0
dict_put(dict, k, v) ==
    [x \in DOMAIN dict \cup {k} |-> IF x = k THEN v ELSE dict[x]]

\* the loop over occs that fills daily_net, skipping dates before today
RECURSIVE daily_net_loop(_, _, _)
daily_net_loop(occs, i, daily_net) ==
    IF i > Len(occs) THEN daily_net
    ELSE LET o == occs[i]
             d == fromisoformat(o.date)
             delta == IF o.kind = "income" THEN o.amount ELSE 0 - o.amount
         IN  IF d < today
             THEN daily_net_loop(occs, i + 1, daily_net)
             ELSE WithValue(dict_put(daily_net, d, dict_get(daily_net, d) + delta),
                            LAMBDA net : daily_net_loop(occs, i + 1, net))

\* one iteration of the day loop; acc holds daterange's cur with running,
\* goes_negative, first_negative_day, min_balance and min_day
forecast_day(daily_net, acc) ==
    LET d == acc.cur
        r == acc.running + dict_get(daily_net, d)
        a1 == IF r < acc.min_balance
              THEN [acc EXCEPT !.cur = d + 1, !.running = r,
                               !.min_balance = r, !.min_day = d]
              ELSE [acc EXCEPT !.cur = d + 1, !.running = r]
    IN  IF (~a1.goes_negative) /\ r < 0
        THEN [a1 EXCEPT !.goes_negative = TRUE,
                        !.first_negative_day = isoformat(d)]
        ELSE a1

\* the iterations for the days from cur through last
RECURSIVE forecast_days(_, _, _)
forecast_days(acc, last, daily_net) ==
    IF acc.cur > last THEN acc
    ELSE WithValue(forecast_day(daily_net, acc),
                   LAMBDA a : forecast_days(a, last, daily_net))

\* the day loop over daterange(today, horizon_end), a week of iterations at
\* a time
RECURSIVE forecast_walk(_, _, _)
forecast_walk(acc, horizon_end, daily_net) ==
    IF acc.cur > horizon_end THEN acc
    ELSE LET last == IF acc.cur + 6 <= horizon_end
                     THEN acc.cur + 6 ELSE horizon_end
         IN  WithValue(forecast_days(acc, last, daily_net),
                       LAMBDA a : forecast_walk(a, horizon_end, daily_net))

\* (goes_negative, details) as one record; first_negative_day is Null for
\* None; the category is not used
forecast_negative_with_purchase(price, category, when) ==
    LET running == current_running_balance_today
        horizon_end == today + ForecastDays
        purchase(net) == dict_put(net, when, dict_get(net, when) - price)
        start == [cur |-> today, running |-> running,
                  goes_negative |-> FALSE, first_negative_day |-> Null,
                  min_balance |-> running, min_day |-> today]
        result(acc) == [goes_negative      |-> acc.goes_negative,
                        first_negative_day |-> acc.first_negative_day,
                        min_balance        |-> acc.min_balance,
                        min_balance_day    |-> isoformat(acc.min_day)]
    IN  WithValue(all_occurrences(horizon_end), LAMBDA occs :
          WithValue(purchase(daily_net_loop(occs, 1, <<>>)), LAMBDA daily_net :
            WithValue(forecast_walk(start, horizon_end, daily_net), result)))

\* a target date text: Null stands for None, "" and blank text, an ISO date
\* is its <<y, m, d>>, and Unparseable is a text fromisoformat rejects
Unparseable == <<"soon">>
IsIsoText(text) == Len(text) = 3

\* a status that also turns red when today's running balance is negative
wish_status_with_balance(remainder_after) ==
    IF remainder_after >= GreenMargin /\ current_running_balance_today >= 0
    THEN "green"
    ELSE IF remainder_after >= 0 /\ current_running_balance_today >= 0
    THEN "yellow"
    ELSE "red"

\* the if / elif / else that picks the status
wish_status(remainder_after) ==
    IF remainder_after >= GreenMargin THEN "green"
    ELSE IF remainder_after >= 0 THEN "yellow"
    ELSE "red"

\* the weekly part of compute_wish_health
weekly_health(category, price) ==
    LET wb == week_bounds(today)
        weekly_budget == budget_for(category)
        spent == spend_this_week(category, wb[1], wb[2])
        remainder_before == IF weekly_budget - spent > 0
                            THEN weekly_budget - spent ELSE 0
        remainder_after == remainder_before - price
    IN  [status           |-> wish_status(remainder_after),
         weekly_budget    |-> weekly_budget,
         spent_this_week  |-> spent,
         remainder_before |-> remainder_before,
         remainder_after  |-> remainder_after]

\* the returned dict, or [error |-> TRUE] when fromisoformat raises ValueError
compute_wish_health(category, price, target_date) ==
    LET td == IF target_date # Null THEN fromisoformat(target_date) ELSE today
        dict(w, f) ==
            [error            |-> FALSE,
             status           |-> w.status,
             weekly_budget    |-> w.weekly_budget,
             spent_this_week  |-> w.spent_this_week,
             remainder_before |-> w.remainder_before,
             remainder_after  |-> w.remainder_after,
             warn90           |-> f.goes_negative,
             warn_details     |-> [first_negative_day |-> f.first_negative_day,
                                   min_balance        |-> f.min_balance,
                                   min_balance_day    |-> f.min_balance_day]]
    IN  IF target_date # Null /\ ~IsIsoText(target_date)
        THEN [error |-> TRUE]
        ELSE WithValue(weekly_health(category, price), LAMBDA w :
               WithValue(forecast_negative_with_purchase(price, category, td),
                         LAMBDA f : dict(w, f)))

----------------------------------------------------------------------------
(* The store under its handlers, and the health of one wishlist row
   (SpecWish) *)

MaxRules == 1
MaxPosted == 1

\* the categories init_db seeds the budgets table with
SeededCategories ==
    {"rent", "utilities", "subscriptions", "food", "entertainment", "misc",
     "transport", "savings"}

Todays == {fromisoformat(<<2025, 1, 8>>)}
WishCategories == {"food", "gadgets"}
Prices == {0, 30, 40, 60}
TargetTexts(day) ==
    {Null, Unparseable, isoformat(day - 2), isoformat(day), isoformat(day + 9)}
Asks(day) ==
    [category : WishCategories, price : Prices, target_date : TargetTexts(day)]

BudgetForms == {[c \in {"food"} |-> v] : v \in {0, 200}}
BalanceForms == {0, 200}
RuleForms(id) ==
    {FormRule(id, "expense", 80, "weekly", 4, <<2025, 1, 1>>, Null),
     FormRule(id, "income", 50, "biweekly", 2, <<2024, 12, 25>>, Null)}
\* <<date, kind, amount, category>> as the transaction form posts them
TxForms ==
    {<<<<2025, 1, 7>>, "expense", 150, "food">>,
     <<<<2025, 1, 5>>, "expense", 150, "gadgets">>,
     <<<<2025, 1, 6>>, "Income", 70, "misc">>}

\* str.lower() on the kind texts the forms post
lower(text) == IF text = "Income" THEN "income" ELSE text

InitWish ==
    /\ schedules = <<>>
    /\ transactions = <<>>
    /\ starting_balance = 0
    /\ budgets = [c \in SeededCategories |-> 0]
    /\ today \in Todays
    /\ ask \in Asks(today)
    /\ health = Null
    /\ kept = Null
    /\ exp_done = FALSE
    /\ exp_until = 0
    /\ exp_occs = <<>>
    /\ page = Null
    /\ occurrences = <<>>
    /\ answer = Null
    /\ before = Null

\* the rowid an INTEGER PRIMARY KEY column gets on INSERT: one more than the
\* largest rowid of the table (rows are kept in rowid order)
next_rowid(rows) == IF rows = <<>> THEN 1 ELSE rows[Len(rows)].id + 1

\* the 90-day part of a returned health, as one record
forecast_of(h) ==
    [goes_negative      |-> h.warn90,
     first_negative_day |-> h.warn_details.first_negative_day,
     min_balance        |-> h.warn_details.min_balance,
     min_balance_day    |-> h.warn_details.min_balance_day]

\* POST /settings
settings_save ==
    /\ \E b \in BalanceForms : starting_balance' = b
    /\ health' = Null
    /\ kept' = Null
    /\ UNCHANGED <<schedules, transactions, budgets, today, ask,
                   exp_done, exp_until, exp_occs, occurrences>>
    /\ before' = IF page # Null \/ answer # Null
                 THEN <<[starting_balance |-> starting_balance,
                         page |-> page, answer |-> answer]>>
                 ELSE before
    /\ page' = Null
    /\ answer' = Null

\* POST /budgets: every category with a row and an amt_ key is updated
budgets_save ==
    /\ \E form \in BudgetForms :
         budgets' = [c \in DOMAIN budgets |->
                        IF c \in DOMAIN form THEN form[c] ELSE budgets[c]]
    /\ kept' = IF health # Null /\ ~health[1].error
               THEN <<forecast_of(health[1])>> ELSE kept
    /\ health' = Null
    /\ UNCHANGED <<schedules, transactions, starting_balance, today, ask,
                   exp_done, exp_until, exp_occs, occurrences>>
    /\ page' = Null
    /\ answer' = Null
    /\ before' = Null

\* POST /clear_budgets
clear_budgets ==
    /\ budgets' = [c \in DOMAIN budgets |-> 0]
    /\ kept' = IF health # Null /\ ~health[1].error
               THEN <<forecast_of(health[1])>> ELSE kept
    /\ health' = Null
    /\ UNCHANGED <<schedules, transactions, starting_balance, today, ask,
                   exp_done, exp_until, exp_occs, occurrences>>
    /\ page' = Null
    /\ answer' = Null
    /\ before' = Null

\* POST /schedules/new: the posted row r gets the next rowid
schedule_new(r) ==
    /\ Len(schedules) < MaxRules
    /\ schedules' = Append(schedules, [r EXCEPT !.id = next_rowid(schedules)])
    /\ health' = Null
    /\ kept' = Null
    /\ UNCHANGED <<transactions, starting_balance, budgets, today, ask,
                   exp_done, exp_until, exp_occs, occurrences>>
    /\ page' = Null
    /\ answer' = Null
    /\ before' = Null

\* POST /schedules/clear
schedules_clear ==
    /\ schedules' = <<>>
    /\ health' = Null
    /\ kept' = Null
    /\ UNCHANGED <<transactions, starting_balance, budgets, today, ask,
                   exp_done, exp_until, exp_occs, occurrences>>
    /\ page' = Null
    /\ answer' = Null
    /\ before' = Null

\* POST /tx with the form f
add_tx(f) ==
    /\ Len(transactions) < MaxPosted
    /\ LET kind == IF lower(f[2]) = "income" THEN "income" ELSE "expense"
       IN  transactions' = Append(transactions,
               [id |-> next_rowid(transactions), ts |-> f[1], amount |-> f[3],
                category |-> f[4], kind |-> kind])
    /\ health' = Null
    /\ kept' = Null
    /\ UNCHANGED <<schedules, starting_balance, budgets, today, ask,
                   exp_done, exp_until, exp_occs, occurrences>>
    /\ page' = Null
    /\ answer' = Null
    /\ before' = Null

\* POST /transactions/clear
clear_all_transactions ==
    /\ transactions' = <<>>
    /\ health' = Null
    /\ kept' = Null
    /\ UNCHANGED <<schedules, starting_balance, budgets, today, ask,
                   exp_done, exp_until, exp_occs, occurrences>>
    /\ page' = Null
    /\ answer' = Null
    /\ before' = Null

\* GET /wishlist: the health computed for the row
wishlist_page ==
    /\ health' = <<compute_wish_health(ask.category, ask.price, ask.target_date)>>
    /\ UNCHANGED <<schedules, transactions, starting_balance, budgets, today,
                   ask, kept, exp_done, exp_until, exp_occs, page,
                   occurrences, answer, before>>

NextWish ==
    \/ settings_save
    \/ budgets_save
    \/ clear_budgets
    \/ \E r \in RuleForms(0) : schedule_new(r)
    \/ schedules_clear
    \/ \E f \in TxForms : add_tx(f)
    \/ clear_all_transactions
    \/ wishlist_page

SpecWish == InitWish /\ [][NextWish]_vars

Computed == health # Null
Health == health[1]
Answered == Computed /\ ~Health.error

\* the days of the Monday-to-Sunday week of today
ThisWeek == {d \in (today - 6)..(today + 6) : d - weekday(d) = today - weekday(today)}

\* expenses posted in the category on a day of this week, from row i on
RECURSIVE SpentFrom(_, _)
SpentFrom(category, i) ==
    IF i > Len(transactions) THEN 0
    ELSE (IF transactions[i].kind = "expense"
             /\ transactions[i].category = category
             /\ fromisoformat(transactions[i].ts) \in ThisWeek
          THEN transactions[i].amount ELSE 0) + SpentFrom(category, i + 1)

HasBudgetRow(category) == category \in DOMAIN budgets
BudgetOf(category) == IF HasBudgetRow(category) THEN budgets[category] ELSE 0

\* the verdict the weekly rule gives a remainder
VerdictOf(remainder) ==
    IF remainder >= 20 THEN "green"
    ELSE IF remainder >= 0 THEN "yellow" ELSE "red"

\* C14: whenever a health is returned, its weekly status is the verdict of
\* remainder = budget of the category - expenses posted in the category this
\* week - price: green from 20 up, yellow from 0 up, red below 0.
C14_StatusIsVerdictOfRemainder ==
    Answered =>
        Health.status = VerdictOf(BudgetOf(ask.category)
                                  - SpentFrom(ask.category, 1) - ask.price)

Target == IF ask.target_date = Null THEN today ELSE fromisoformat(ask.target_date)

\* the days of the walk
Window == today..(today + 90)

\* the 90-day result of the returned health
Forecast == forecast_of(Health)

\* C16: a health returned for a target date before today carries the forecast
\* of the same price with today as target date: the same goes-negative flag,
\* first negative day, minimum balance and minimum-balance day.
C16_PastTargetIsToday ==
    (Answered /\ Target < today) =>
        Forecast = forecast_negative_with_purchase(ask.price, ask.category, today)

\* signed amount of the occurrences from i on dated in lo..hi
RECURSIVE NetBetween(_, _, _, _)
NetBetween(occs, i, lo, hi) ==
    IF i > Len(occs) THEN 0
    ELSE (IF fromisoformat(occs[i].date) \in lo..hi
          THEN (IF occs[i].kind = "income" THEN occs[i].amount
                ELSE 0 - occs[i].amount)
          ELSE 0) + NetBetween(occs, i + 1, lo, hi)

\* the simulated running value at the end of day d: today's running balance,
\* plus the occurrences dated from today through d, minus the price from the
\* target date on
Simulated(occs, d) ==
    running_balance_through(today) + NetBetween(occs, 1, today, d)
        - (IF Target <= d THEN ask.price ELSE 0)

Earliest(days) == CHOOSE d \in days : \A e \in days : d <= e

\* C17: a returned forecast has goes-negative true exactly when the simulated
\* running value is below zero at the end of some day of today..today+90;
\* first_negative_day is then the earliest such day, and is absent otherwise.
C17_GoesNegativeIffSimulatedBelowZero ==
    Answered =>
        LET occs == all_occurrences(today + 90)
            neg == {d \in Window : Simulated(occs, d) < 0}
        IN  /\ Forecast.goes_negative <=> (neg # {})
            /\ neg # {} => Forecast.first_negative_day = isoformat(Earliest(neg))
            /\ neg = {} => Forecast.first_negative_day = Null

\* the running value of the walk at the end of day d, the price taken off on
\* the target day when the walk passes it
Walked(occs, d) ==
    running_balance_through(today) + NetBetween(occs, 1, today, d)
        - (IF Target \in today..d THEN ask.price ELSE 0)

\* C18: a returned forecast's min_balance is the least of the running values
\* at the end of the days of the walk, and min_balance_day is the earliest
\* day of the walk whose running value is that least value.
C18_MinIsLeastEndOfDayValue ==
    Answered =>
        LET occs == all_occurrences(today + 90)
            val == [d \in Window |-> Walked(occs, d)]
            least == CHOOSE v \in {val[d] : d \in Window} :
                         \A d \in Window : v <= val[d]
        IN  /\ Forecast.min_balance = least
            /\ Forecast.min_balance_day =
                   isoformat(Earliest({d \in Window : val[d] = least}))

\* C20: a health computed for an unparseable target date is returned without
\* error and is the health computed for an absent target date.
C20_UnparseableTargetIsToday ==
    (Computed /\ ask.target_date = Unparseable) =>
        /\ ~Health.error
        /\ Health = compute_wish_health(ask.category, ask.price, Null)

\* the weekly status of the row in the current store
WeeklyStatus == weekly_health(ask.category, ask.price).status

\* the 90-day result of the row's price and target date in the current
\* store, for a category
ForecastFor(category) ==
    forecast_negative_with_purchase(ask.price, category, Target)

\* C19: a step that leaves the transactions and the budgets table alone
\* (it changes rules or the starting balance) leaves the weekly status of the
\* row unchanged; a returned health carries that weekly status; its 90-day
\* result is the one computed before the budgets table changed, and is the
\* forecast of the row's price and target date for every category passed.
C19_VerdictsIndependent ==
    /\ [](Answered =>
            /\ Health.status = WeeklyStatus
            /\ kept # Null => Forecast = kept[1]
            /\ \A c \in WishCategories : Forecast = ForecastFor(c))
    /\ [][(transactions' = transactions /\ budgets' = budgets)
              => WeeklyStatus' = WeeklyStatus]_vars

\* after a change of the budgets table a health came back green for this
\* week with goes-negative true
C19_Witness ==
    /\ Answered
    /\ kept # Null
    /\ Health.status = "green"
    /\ Health.warn90

----------------------------------------------------------------------------
(* The other handlers that write the store, and init_db (SpecStore).  The  *)
(* forms carry what the handlers accept: any amount, any kind and          *)
(* frequency text, any integer dow.                                        *)

\* forms of /schedules/new and /schedules/update: the valid ones, a negative
\* amount, a frequency outside the four, a dow outside 0..6
AnyRuleForms ==
    RuleForms(0)
    \cup {FormRule(0, "expense", 0 - 5, "weekly", 4, <<2025, 1, 1>>, Null),
          FormRule(0, "income", 50, "daily", 2, <<2025, 1, 1>>, Null),
          FormRule(0, "expense", 30, "monthly", 9, <<2025, 2, 20>>, Null)}

\* forms of /tx and /transactions/update: also a kind that is neither text
AnyTxForms == TxForms \cup {<<<<2025, 1, 9>>, "transfer", 25, "misc">>}

\* the wishlist rows /wishlist/import can be asked for: wishlist_new and
\* wishlist_update store the target date in ISO form
WishRows(day) ==
    {a \in Asks(day) : a.category = "food" /\ a.price = 30
                       /\ a.target_date = isoformat(day + 9)}

\* UPDATE ... WHERE id=? on a table: the rows with that rowid are rewritten
update_where_id(rows, id, Set(_)) ==
    [i \in 1..Len(rows) |-> IF rows[i].id = id THEN Set(rows[i]) ELSE rows[i]]

\* DELETE ... WHERE id=? on a table
delete_where_id(rows, id) == SelectSeq(rows, LAMBDA row : row.id # id)

\* POST /schedules/update/{sid}: every posted column is written as posted;
\* end_date and active are not among them
schedule_update(sid, r) ==
    /\ schedules' = update_where_id(schedules, sid, LAMBDA row :
           [row EXCEPT !.category = r.category, !.amount = r.amount,
                       !.kind = r.kind, !.frequency = r.frequency,
                       !.start_date = r.start_date, !.dow = r.dow])
    /\ health' = Null
    /\ kept' = Null
    /\ page' = Null
    /\ answer' = Null
    /\ before' = Null
    /\ UNCHANGED <<transactions, starting_balance, budgets, today, ask,
                   exp_done, exp_until, exp_occs, occurrences>>

\* GET /schedules/delete/{sid}
schedule_delete(sid) ==
    /\ schedules' = delete_where_id(schedules, sid)
    /\ health' = Null
    /\ kept' = Null
    /\ page' = Null
    /\ answer' = Null
    /\ before' = Null
    /\ UNCHANGED <<transactions, starting_balance, budgets, today, ask,
                   exp_done, exp_until, exp_occs, occurrences>>

\* POST /wishlist/import/{wid} for the wishlist row ask: a one-time expense
\* whose start_date and end_date are both the target date
wishlist_import_schedule ==
    /\ Len(schedules) < MaxRules
    /\ ask.target_date # Null /\ IsIsoText(ask.target_date)
    /\ schedules' = Append(schedules,
           ImportedRule(next_rowid(schedules), ask.price, ask.target_date))
    /\ health' = Null
    /\ kept' = Null
    /\ page' = Null
    /\ answer' = Null
    /\ before' = Null
    /\ UNCHANGED <<transactions, starting_balance, budgets, today, ask,
                   exp_done, exp_until, exp_occs, occurrences>>

\* POST /transactions/update/{tid}: kind is written as posted
update_transaction(tid, f) ==
    /\ transactions' = update_where_id(transactions, tid, LAMBDA row :
           [row EXCEPT !.ts = f[1], !.kind = f[2], !.amount = f[3],
                       !.category = f[4]])
    /\ health' = Null
    /\ kept' = Null
    /\ page' = Null
    /\ answer' = Null
    /\ before' = Null
    /\ UNCHANGED <<schedules, starting_balance, budgets, today, ask,
                   exp_done, exp_until, exp_occs, occurrences>>

\* GET /transactions/delete/{tid}
delete_transaction(tid) ==
    /\ transactions' = delete_where_id(transactions, tid)
    /\ health' = Null
    /\ kept' = Null
    /\ page' = Null
    /\ answer' = Null
    /\ before' = Null
    /\ UNCHANGED <<schedules, starting_balance, budgets, today, ask,
                   exp_done, exp_until, exp_occs, occurrences>>

\* a seeding that inserts the eight budgets whatever the table holds
seed_budgets_always(table) == [c \in SeededCategories |-> 0]

\* Budgets seed at 0: the eight rows are inserted when COUNT(*) is 0
seed_budgets(table) ==
    IF DOMAIN table = {} THEN [c \in SeededCategories |-> 0] ELSE table

\* Starting balance default: '0' is inserted when the SELECT finds no row;
\* row is <<>> or <<value>>, what fetchone() returns
seed_starting_balance(row) == IF row = Null THEN 0 ELSE row[1]

\* _startup: init_db run on the store
init_db ==
    /\ budgets' = seed_budgets(budgets)
    /\ starting_balance' = seed_starting_balance(<<starting_balance>>)
    /\ UNCHANGED <<schedules, transactions, today, ask, health, kept,
                   exp_done, exp_until, exp_occs, page,
                   occurrences, answer, before>>

\* the rowids a handler can be asked for: those in use and one that is not
RuleIds == 1..(MaxRules + 1)
TxIds == 1..(MaxPosted + 1)

\* the store after init_db has run on an empty database
InitStore ==
    /\ schedules = <<>>
    /\ transactions = <<>>
    /\ starting_balance = seed_starting_balance(Null)
    /\ budgets = seed_budgets(<<>>)
    /\ today \in Todays
    /\ ask \in WishRows(today)
    /\ health = Null
    /\ kept = Null
    /\ exp_done = FALSE
    /\ exp_until = 0
    /\ exp_occs = <<>>
    /\ page = Null
    /\ occurrences = <<>>
    /\ answer = Null
    /\ before = Null

NextStore ==
    \/ settings_save
    \/ budgets_save
    \/ clear_budgets
    \/ \E r \in AnyRuleForms : schedule_new(r)
    \/ \E sid \in RuleIds, r \in AnyRuleForms : schedule_update(sid, r)
    \/ \E sid \in RuleIds : schedule_delete(sid)
    \/ schedules_clear
    \/ wishlist_import_schedule
    \/ \E f \in AnyTxForms : add_tx(f)
    \/ \E tid \in TxIds, f \in AnyTxForms : update_transaction(tid, f)
    \/ \E tid \in TxIds : delete_transaction(tid)
    \/ clear_all_transactions
    \/ init_db

SpecStore == InitStore /\ [][NextStore]_vars

\* the rows of the two tables
StoredRules == {schedules[i] : i \in 1..Len(schedules)}
StoredTx == {transactions[i] : i \in 1..Len(transactions)}

\* C22: after any sequence of schedule_new, schedule_update and wishlist
\* import, every stored rule has amount >= 0, a frequency among weekly,
\* biweekly, monthly and one-time, and, when its frequency is weekly,
\* biweekly or monthly, a day-of-week anchor in 0..6.
C22_StoredRulesAreValid ==
    \A r \in StoredRules :
        /\ r.amount >= 0
        /\ r.frequency \in Frequencies
        /\ r.frequency \in Recurring => r.dow # Null /\ r.dow[1] \in 0..6

\* C25: after any sequence of schedule_new, wishlist import and
\* schedule_update, every stored rule with an end date has
\* start date <= end date.
C25_StartNotAfterEnd ==
    \A r \in StoredRules :
        r.end_date # Null => IsoLeq(r.start_date, r.end_date)

\* C29: after any sequence of add, update, delete and clear-all transaction
\* operations, every stored transaction has kind exactly 'income' or
\* 'expense', so each posted amount is in exactly one of the two sums of
\* the running balance.
C29_KindIsIncomeOrExpense ==
    \A t \in StoredTx :
        /\ t.kind \in {"income", "expense"}
        /\ sum_kind(<<t>>, 1, "income", MinIso, t.ts)
             + sum_kind(<<t>>, 1, "expense", MinIso, t.ts) = t.amount

\* the four stores init_db could touch, as one value
Store == <<starting_balance, budgets, transactions, schedules>>

\* C30: init_db run on an initialised store leaves the starting balance,
\* every budget amount, the transactions and the schedules unchanged; the
\* eight seeded categories are the budget categories in every state, and
\* no operation (budgets_save and clear_budgets among them) changes that
\* set.
C30_InitDbIdempotent ==
    /\ [](DOMAIN budgets = SeededCategories)
    /\ [][/\ init_db => Store' = Store
          /\ DOMAIN budgets' = DOMAIN budgets]_vars

\* init_db can run on a store where nothing has its seeded value
C30_Witness ==
    /\ starting_balance # 0
    /\ \E c \in DOMAIN budgets : budgets[c] # 0
    /\ transactions # <<>>
    /\ schedules # <<>>
    /\ ENABLED init_db

----------------------------------------------------------------------------
(* Expansions of one rule to several cutoff dates (SpecExpand) *)

\* the ISO dates of the occurrences last computed
OccDates == [i \in 1..Len(exp_occs) |-> exp_occs[i].date]

\* the rule of the example: weekly, anchor Friday, start Wednesday
\* 2025-01-01, no end date, expanded to 2025-01-31
FridayRuleToJanuaryEnd ==
    /\ exp_done
    /\ Rule.frequency = "weekly"
    /\ Rule.dow = <<4>>
    /\ Rule.start_date = <<2025, 1, 1>>
    /\ Rule.end_date = Null
    /\ exp_until = fromisoformat(<<2025, 1, 31>>)

\* C26: the rule {weekly, anchor Friday, start 2025-01-01, no end date}
\* expanded to 2025-01-31 yields exactly the five occurrences 2025-01-03,
\* 01-10, 01-17, 01-24 and 01-31, the horizon date included.
C26_FiveFridaysOfJanuary ==
    FridayRuleToJanuaryEnd =>
        OccDates = <<<<2025, 1, 3>>, <<2025, 1, 10>>, <<2025, 1, 17>>,
                     <<2025, 1, 24>>, <<2025, 1, 31>>>>

C26_Witness ==
    /\ FridayRuleToJanuaryEnd
    /\ weekday(fromisoformat(<<2025, 1, 1>>)) = 2
    /\ Len(exp_occs) = 5
    /\ exp_occs[5].date = isoformat(exp_until)

\* C28: for horizons h1 <= h2 the occurrences of the expansion to h2 dated
\* <= h1 are the expansion to h1, in the same order: when a rule expanded
\* to h1 is expanded again to a horizon not before h1, the new list cut at
\* h1 is the old list.
C28_HorizonPrefixStable ==
    [][(exp_done /\ exp_until <= exp_until') =>
          SelectSeq(exp_occs', LAMBDA o : IsoLeq(o.date, isoformat(exp_until)))
              = exp_occs]_vars

----------------------------------------------------------------------------
(* The days of a projected month (SpecProject) *)

\* signed amount of what the store holds for day d alone: the posted
\* transactions dated d and the occurrences dated d of the rules expanded
\* to the end of the range
PostedNetOn(d) == running_balance_through(d) - running_balance_through(d - 1)
OccNetOn(occs, d) ==
    occ_net_through(occs, 1, isoformat(d))
        - occ_net_through(occs, 1, isoformat(d - 1))

\* C23: a projection of [start, end] has exactly one point for every
\* calendar day of the range, in ascending date order, and from one day to
\* the next the running balance changes by exactly (posted income +
\* occurrence income) - (posted expense + occurrence expense) of the later
\* day, so a day without activity repeats the value of the day before.
C23_OnePointPerDayChainedByDayNet ==
    Shown =>
        LET occs == all_occurrences(Page.end)
        IN  /\ Len(Page.days) = Page.end - Page.start + 1
            /\ \A d \in Page.start..Page.end :
                  Page.days[d - Page.start + 1].label = isoformat(d)
            /\ \A d \in (Page.start + 1)..Page.end :
                  RunAt(d) - RunAt(d - 1) = PostedNetOn(d) + OccNetOn(occs, d)

\* C23 witness: starting balance 100, no posted transaction, an income
\* occurrence of 50 on a later day of the range: the days before it show
\* 100, that day shows 150 and the day after repeats 150.
C23_Witness ==
    /\ Shown /\ transactions = <<>> /\ starting_balance = 100
    /\ \E d \in (Page.start + 1)..(Page.end - 1) :
          /\ \A e \in Page.start..(d - 1) : RunAt(e) = 100
          /\ Page.days[d - Page.start + 1].inc = 50
          /\ Page.days[d - Page.start + 1].exp = 0
          /\ RunAt(d) = 150
          /\ RunAt(d + 1) = 150

----------------------------------------------------------------------------
(* The balance of a day as the dashboard and the API answer it, and the    *)
(* read-only handlers side by side (SpecViews, SpecBalance)                *)

\* for o in occs: if o["date"] == d.isoformat(): income adds, any other
\* kind subtracts
RECURSIVE occ_net_on(_, _, _)
occ_net_on(occs, i, ds) ==
    IF i > Len(occs) THEN 0
    ELSE (IF occs[i].date = ds
          THEN (IF occs[i].kind = "income" THEN occs[i].amount
                ELSE 0 - occs[i].amount)
          ELSE 0) + occ_net_on(occs, i + 1, ds)

\* the balance up to the day before, the posted transactions of the day,
\* the occurrences of the day
calendar_balance_for_day(d) ==
    LET ds      == isoformat(d)
        running == running_balance_through(d - 1)
        inc     == sum_kind(transactions, 1, "income", ds, ds)
        exp     == sum_kind(transactions, 1, "expense", ds, ds)
    IN  (running + (inc - exp)) + occ_net_on(all_occurrences(d), 1, ds)

\* GET /home: today's balance on the dashboard
dashboard ==
    /\ answer' = <<[route |-> "/home",
                    balance |-> calendar_balance_for_day(today)]>>
    /\ UNCHANGED <<schedules, transactions, starting_balance, budgets, today,
                   ask, health, kept, exp_done, exp_until, exp_occs, page,
                   occurrences, before>>

\* GET /api/today_balance
api_today_balance ==
    /\ answer' = <<[route |-> "/api/today_balance",
                    balance |-> running_balance_through(today)]>>
    /\ UNCHANGED <<schedules, transactions, starting_balance, budgets, today,
                   ask, health, kept, exp_done, exp_until, exp_occs, page,
                   occurrences, before>>

\* the row add_tx writes for the income form of TxForms
ViewTxRows(id) ==
    {[id |-> id, ts |-> <<2025, 1, 6>>, amount |-> 70, category |-> "misc",
      kind |-> "income"]}

\* a store the handlers of SpecWish leave, with nothing computed yet
InitViews ==
    /\ schedules \in Tables(RuleForms, MaxRules)
    /\ transactions \in Tables(ViewTxRows, MaxPosted)
    /\ starting_balance \in BalanceForms
    /\ budgets = seed_budgets(<<>>)
    /\ today \in Todays
    /\ ask \in WishRows(today)
    /\ health = Null
    /\ kept = Null
    /\ exp_done = FALSE
    /\ exp_until = 0
    /\ exp_occs = <<>>
    /\ page = Null
    /\ occurrences = <<>>
    /\ answer = Null
    /\ before = Null

\* every handler and function that only reads, on a store that stays as it is
NextViews ==
    \/ schedules # <<>> /\ Expand
    \/ CalendarSeriesForMonth
    \/ dashboard
    \/ api_today_balance
    \/ wishlist_page

SpecViews == InitViews /\ [][NextViews]_vars

\* the three balance views, and POST /settings between them
NextBalance ==
    \/ CalendarSeriesForMonth
    \/ dashboard
    \/ api_today_balance
    \/ settings_save

SpecBalance == InitViews /\ [][NextBalance]_vars

\* C21: expanding, projecting and forecasting leave the transactions,
\* schedules, budgets and params stores unchanged; the occurrences table is
\* empty in every state and no step writes to it; a query repeated on the
\* unchanged store on the same day returns what it returned before.
C21_QueriesLeaveStoreAndRepeat ==
    /\ [](occurrences = <<>>)
    /\ [][/\ Store' = Store
          /\ occurrences' = occurrences
          /\ today' = today
          /\ (exp_done /\ exp_until' = exp_until) => exp_occs' = exp_occs
          /\ (page # Null /\ page' # Null /\ page'[1].start = page[1].start)
                => page' = page
          /\ (answer # Null /\ answer' # Null
                /\ answer'[1].route = answer[1].route) => answer' = answer
          /\ (health # Null /\ health' # Null) => health' = health]_vars

\* C21 witness: every kind of query has answered on a store with a rule and
\* a transaction, and the month shown has activity
C21_Witness ==
    /\ schedules # <<>> /\ transactions # <<>>
    /\ exp_done /\ exp_occs # <<>>
    /\ Shown /\ FinalRun # RunAt(Page.start)
    /\ answer # Null
    /\ Answered

\* the results before the last change of the starting balance, and that change
Before == before[1]
Delta == starting_balance - Before.starting_balance

\* C24: changing the starting balance by delta through POST /settings, and
\* nothing else, shifts every running balance of every day of a projected
\* month, the dashboard balance and the balance of /api/today_balance by
\* exactly delta; the balance the forecast starts from is the one the API
\* returns.
C24_StartingBalanceShiftsEveryBalance ==
    /\ current_running_balance_today = running_balance_through(today)
    /\ before # Null =>
        /\ (Shown /\ Before.page # Null /\ Before.page[1].start = Page.start)
              => \A i \in 1..Len(Page.days) :
                    Page.days[i].running
                        = Before.page[1].days[i].running + Delta
        /\ (answer # Null /\ Before.answer # Null
               /\ Before.answer[1].route = answer[1].route)
              => answer[1].balance = Before.answer[1].balance + Delta

\* C24 witness: the same month and the same balance view answered before and
\* after a change of the starting balance by 200 or by -200
C24_Witness ==
    /\ before # Null /\ Delta # 0
    /\ Shown /\ Before.page # Null /\ Before.page[1].start = Page.start
    /\ answer # Null /\ Before.answer # Null
    /\ Before.answer[1].route = answer[1].route
    /\ schedules # <<>> /\ transactions # <<>>

\* C27: the dashboard balance of today and the balance /api/today_balance
\* returns both equal the running balance the month series reports for
\* today.
C27_ViewsAgreeOnToday ==
    (Shown /\ answer # Null /\ today \in Page.start..Page.end)
        => answer[1].balance = RunAt(today)

====
